---- MODULE Spec2Model ----
(***************************************************************************)
(* A model of cacheman/cachewrap.py: the CacheWrap content lifecycle       *)
(* (load / save / build / delete), the callback dispatch, and the          *)
(* dependency cascade threaded through a by-reference seen-set.            *)
(*                                                                         *)
(* Python calls are modelled with an explicit call stack: every method is  *)
(* a frame with a program counter, a nested call pushes a frame, a return  *)
(* pops it and leaves the returned value in `ret`.  The interpreter is     *)
(* single-threaded, so a new top-level call starts only on an empty stack. *)
(***************************************************************************)
EXTENDS Integers, Sequences, FiniteSets, TLC

VARIABLES
    wrappers,       \* object id -> the CacheWrap instance's fields
    cache_by_name,  \* manager.cache_by_name: name -> registered object
    store,          \* the pickle files of manager.cache_directory, by name
    stack,          \* the Python call stack, innermost frame first
    heap,           \* the seen_caches sets alive, shared by reference
    ret,            \* the value returned by the last finished call
    err,            \* the exception that ended the last top-level call
    call,           \* the current (or last) top-level call
    pre,            \* wrappers and registry as they were when it began
    log             \* callbacks and node actions run by it, in order

vars == <<wrappers, cache_by_name, store, stack, heap, ret, err, call, pre, log>>

----------------------------------------------------------------------------
(* Bounds of the exploration *)

MaxDepth == 6            \* the interpreter's recursion limit
MaxCallbacks == 2        \* callbacks a caller passes to one constructor

ObjIds == {"w1", "w2", "w3"}
Names == {"A", "B", "C"}
NameOf(o) == CASE o = "w1" -> "A" [] o = "w2" -> "B" [] OTHER -> "C"

----------------------------------------------------------------------------
(* Python values *)

None == [t |-> "None"]
Bool(b) == [t |-> "bool", b |-> b]
Dict(m) == [t |-> "dict", m |-> m]
Pair(a, b) == [t |-> "tuple", a |-> a, b |-> b]

Keys == {"k"}

Empty == Dict(<<>>)
KV == Dict([k \in {"k"} |-> "v"])
KW == Dict([k \in {"k"} |-> "w"])

\* bool(x): None, False and an empty mapping are falsy
Truthy(x) ==
    CASE x.t = "None" -> FALSE
      [] x.t = "bool" -> x.b
      [] x.t = "dict" -> DOMAIN x.m # {}
      [] OTHER -> TRUE

\* `a or b`
PyOr(a, b) == IF Truthy(a) THEN a ELSE b

----------------------------------------------------------------------------
(* Caller-supplied callbacks, by what they may return *)

LoaderResults == {None, Empty, KV}
BuilderResults == {None, Empty, KV}
SaverResults == {None, Bool(FALSE), Empty, Bool(TRUE)}

\* the validator accepts exactly the mapping {"k": "v"}
validator(c) == c = KV

\* the pre-processor stamps key "k" with "w", the post-processor with "v"
pre_processor(c) == IF c.t = "dict" THEN Dict([k \in {"k"} |-> "w"]) ELSE c
post_processor(c) == IF c.t = "dict" THEN Dict([k \in {"k"} |-> "v"]) ELSE c

\* registers.dict_loader: the default empty mapping
dict_loader == Empty

----------------------------------------------------------------------------
(* Objects *)

NoCache == "None"       \* Python's None where a wrapper is expected

NoCallbacks ==
    [loader |-> "None", saver |-> "None", builder |-> "None", deleter |-> "None",
     pre_processor |-> "None", post_processor |-> "None", validator |-> "None"]

\* a wrapper that has not been constructed yet
Unborn ==
    [st |-> "unborn", name |-> "", contents |-> None, dependents |-> {},
     cb |-> NoCallbacks]

\* the fields CacheWrap.__init__ assigns
CacheWrap(cache_name, contents, dependents, kwargs) ==
    [st |-> "alive", name |-> cache_name, contents |-> contents,
     dependents |-> dependents, cb |-> kwargs]

\* the preset loader / saver / deleter, overridden by the caller's kwargs
Preset(defaults, kwargs) ==
    [c \in DOMAIN NoCallbacks |->
        IF kwargs[c] # "None" THEN kwargs[c]
        ELSE IF c \in DOMAIN defaults THEN defaults[c] ELSE "None"]

NonPersistentCache(kwargs) == Preset([loader |-> "dict_loader"], kwargs)

PersistentCache(kwargs) ==
    Preset([loader |-> "_manager_pickle_loader",
            saver |-> "_manager_pickle_saver",
            deleter |-> "_manager_pickle_deleter"], kwargs)

----------------------------------------------------------------------------
(* The registry (cacher.CacheManager) *)

cache_registered(name) == cache_by_name[name] # NoCache

register_cache(name, o) == [cache_by_name EXCEPT ![name] = o]

retrieve_cache(d) == IF d \in Names THEN cache_by_name[d] ELSE NoCache

----------------------------------------------------------------------------
(* The storage adapter (registers.pickle_loader / pickle_saver / pickle_deleter) *)

pickle_loader(name) == store[name]

pickle_saver(name, contents) == [store EXCEPT ![name] = contents]

pickle_deleter(name) == [store EXCEPT ![name] = None]

----------------------------------------------------------------------------
(* Frames *)

Frame(o, op, pc, apply_to_dependents, seen_caches) ==
    [self |-> o, op |-> op, pc |-> pc, casc |-> apply_to_dependents,
     sc |-> seen_caches, own |-> FALSE, todo |-> {}]

\* the five methods that take (apply_to_dependents, seen_caches)
Cascading ==
    {"load", "save", "delete_saved_content", "invalidate_and_rebuild", "load_or_build"}

Event(o, ev, arg, res) == [self |-> o, ev |-> ev, arg |-> arg, res |-> res]

f == Head(stack)
self == wrappers[f.self]

\* the frame on top becomes g
Goto(g) == stack' = <<g>> \o Tail(stack)

\* the frame on top moves on to pc and calls g
Invoke(pc, g) == stack' = <<g, [f EXCEPT !.pc = pc]>> \o Tail(stack)

\* the frame on top returns v; a seen-set it created dies with it
Return(v) ==
    /\ stack' = Tail(stack)
    /\ ret' = v
    /\ heap' = IF f.own THEN SubSeq(heap, 1, Len(heap) - 1) ELSE heap

\* an exception nobody catches unwinds the whole stack
Raise(e) ==
    /\ stack' = <<>>
    /\ heap' = <<>>
    /\ err' = e
    /\ ret' = None

Init ==
    /\ wrappers = [o \in ObjIds |-> Unborn]
    /\ cache_by_name = [n \in Names |-> NoCache]
    /\ store = [n \in Names |-> None]
    /\ stack = <<>>
    /\ heap = <<>>
    /\ ret = None
    /\ err = "None"
    /\ call = [op |-> "None", self |-> "None", casc |-> FALSE]
    /\ pre = [wrappers |-> wrappers, cache_by_name |-> cache_by_name, store |-> store]
    /\ log = <<>>

----------------------------------------------------------------------------
(* Helpers of CacheWrap *)

\* `if seen_caches and self.name in seen_caches`
AlreadySeen(sc, name) == sc # 0 /\ heap[sc] # {} /\ name \in heap[sc]

\* a traversal that forgets the names it reaches: only a new set gets the name
add_seen_cache_forgetful(sc, name) ==
    IF sc = 0
    THEN <<Append(heap, {name}), Len(heap) + 1>>
    ELSE <<heap, sc>>

\* _add_seen_cache: <<the heap afterwards, the set returned>>; None (0) gets a new set
_add_seen_cache(sc, name) ==
    IF sc = 0
    THEN <<Append(heap, {name}), Len(heap) + 1>>
    ELSE <<[heap EXCEPT ![sc] = @ \cup {name}], sc>>

\* a generator that yields whatever the registry answers, None included
retrieve_dependent_caches_unchecked(dependent, seen_dependents) ==
    IF dependent \notin seen_dependents THEN {retrieve_cache(dependent)} ELSE {}

\* _retrieve_dependent_caches, one turn of the generator: what it yields for the
\* dependent it looks at (the seen-set is read at that moment, not when the loop began)
_retrieve_dependent_caches(dependent, seen_dependents) ==
    IF dependent \notin seen_dependents
    THEN LET cache == retrieve_cache(dependent)
         IN IF cache # NoCache THEN {cache} ELSE {}
    ELSE {}

\* __contains__, lines 59-62
__contains__(w, key) == IF w.contents = None THEN FALSE ELSE key \in DOMAIN w.contents.m

_pre_process(w, contents) ==
    IF w.cb.pre_processor # "None" THEN pre_processor(contents) ELSE contents

\* the post-processor is called and its result dropped
_post_process(w, contents) == contents

PostEvents(o, w, contents) ==
    IF w.cb.post_processor # "None"
    THEN <<Event(o, "post_processor", contents, post_processor(contents))>>
    ELSE <<>>

\* what each configured callback may hand back
LoaderReturns(w) ==
    CASE w.cb.loader = "loader" -> LoaderResults
      [] w.cb.loader = "dict_loader" -> {dict_loader}
      [] w.cb.loader = "_manager_pickle_loader" -> {pickle_loader(w.name)}
      [] OTHER -> {None}

BuilderReturns(w) == IF w.cb.builder = "None" THEN {dict_loader} ELSE BuilderResults

SaverReturns(w) == IF w.cb.saver = "None" THEN {None} ELSE SaverResults

\* a load that forgets line 137 and keeps the old contents when there is no loader
load_contents_kept(w, r) ==
    IF w.cb.loader = "None" THEN w.contents
    ELSE IF r = None \/ (w.cb.validator # "None" /\ ~validator(r)) THEN None
    ELSE r

\* load, lines 137-146: the contents it leaves, r being what the loader returned
load_contents(w, r) ==
    IF w.cb.loader = "None" THEN None
    ELSE IF r = None \/ (w.cb.validator # "None" /\ ~validator(r)) THEN None
    ELSE _post_process(w, r)

\* save, line 158: `(self.saver and self.saver(self.name, contents)) or contents`
save_result(w, contents, s) ==
    IF w.cb.saver = "None" THEN contents ELSE PyOr(s, contents)

\* a pickle saver that takes empty contents for nothing to save
saver_store_unless_empty(w) ==
    IF w.cb.saver = "_manager_pickle_saver" /\ Truthy(w.contents)
    THEN pickle_saver(w.name, w.contents)
    ELSE store

\* _manager_pickle_saver ignores its arguments and pickles self.contents
saver_store(w) ==
    IF w.cb.saver = "_manager_pickle_saver" THEN pickle_saver(w.name, w.contents)
    ELSE store

deleter_store(w) ==
    IF w.cb.deleter = "_manager_pickle_deleter" THEN pickle_deleter(w.name)
    ELSE store

\* a Python call: one more frame, unless the interpreter's recursion limit is hit
Calls(pc, g) ==
    IF Len(stack) >= MaxDepth
    THEN Raise("RuntimeError")
    ELSE Invoke(pc, g) /\ UNCHANGED <<heap, ret, err>>

Running(op, pc) == stack # <<>> /\ f.op = op /\ f.pc = pc

----------------------------------------------------------------------------
(* The cascade, shared by the five cascading methods *)

\* an invalidate_and_rebuild shaped like the others: dependents first
enter_recursing_first ==
    /\ stack # <<>> /\ f.op \in Cascading /\ f.pc = "entry"
    /\ IF AlreadySeen(f.sc, self.name)
       THEN /\ Return(None)
            /\ UNCHANGED <<wrappers, cache_by_name, store, err, call, pre, log>>
       ELSE LET a == _add_seen_cache(f.sc, self.name)
                pc == IF f.casc THEN "deps"
                      ELSE IF f.op = "invalidate_and_rebuild" THEN "invalidate"
                      ELSE "body"
            IN /\ heap' = a[1]
               /\ Goto([f EXCEPT !.sc = a[2], !.own = (f.sc = 0), !.pc = pc,
                                 !.todo = self.dependents])
               /\ UNCHANGED <<wrappers, cache_by_name, store, ret, err, call, pre, log>>

\* the guard and _add_seen_cache that open each of them
Enter ==
    /\ stack # <<>> /\ f.op \in Cascading /\ f.pc = "entry"
    /\ IF AlreadySeen(f.sc, self.name)
       THEN /\ Return(None)
            /\ UNCHANGED <<wrappers, cache_by_name, store, err, call, pre, log>>
       ELSE LET a == _add_seen_cache(f.sc, self.name)
                pc == IF f.op = "invalidate_and_rebuild" THEN "invalidate"
                      ELSE IF f.casc THEN "deps" ELSE "body"
            IN /\ heap' = a[1]
               /\ Goto([f EXCEPT !.sc = a[2], !.own = (f.sc = 0), !.pc = pc,
                                 !.todo = self.dependents])
               /\ UNCHANGED <<wrappers, cache_by_name, store, ret, err, call, pre, log>>

\* `for dependent in self._retrieve_dependent_caches(seen_caches): dependent.op(...)`
\* One turn of the loop: the generator runs on until it yields a cache, and the
\* method is called on it.  The set is iterated in an order the language does not
\* fix, so any dependent that yields now may be the next one; a dependent that
\* yields nothing now (seen, or not registered) yields nothing later in this call.
ForDependent ==
    /\ stack # <<>> /\ f.op \in Cascading /\ f.pc = "deps"
    /\ \E d \in f.todo :
         \E cache \in _retrieve_dependent_caches(d, heap[f.sc]) :
            IF cache = NoCache
            THEN Raise("AttributeError")
            ELSE IF Len(stack) >= MaxDepth
            THEN Raise("RuntimeError")
            ELSE /\ stack' = <<Frame(cache, f.op, "entry", f.casc, f.sc),
                               [f EXCEPT !.todo = @ \ {d}]>> \o Tail(stack)
                 /\ UNCHANGED <<heap, ret, err>>
    /\ UNCHANGED <<wrappers, cache_by_name, store, call, pre, log>>

\* the generator is exhausted: nothing left yields
EndFor ==
    /\ stack # <<>> /\ f.op \in Cascading /\ f.pc = "deps"
    /\ \A d \in f.todo : _retrieve_dependent_caches(d, heap[f.sc]) = {}
    /\ IF f.op = "invalidate_and_rebuild"
       THEN Return(None)
       ELSE Goto([f EXCEPT !.pc = "body", !.todo = {}]) /\ UNCHANGED <<heap, ret>>
    /\ UNCHANGED <<wrappers, cache_by_name, store, err, call, pre, log>>

----------------------------------------------------------------------------
(* The node-local actions *)

\* load, lines 137-146
load ==
    /\ Running("load", "body")
    /\ \E r \in LoaderReturns(self) :
         LET c == load_contents(self, r)
             called == self.cb.loader # "None"
             checked == called /\ r # None /\ self.cb.validator # "None"
         IN /\ wrappers' = [wrappers EXCEPT ![f.self].contents = c]
            /\ log' = log \o <<Event(f.self, "load", None, c)>>
                   \o (IF called THEN <<Event(f.self, "loader", None, r)>> ELSE <<>>)
                   \o (IF checked
                       THEN <<Event(f.self, "validator", r, Bool(validator(r)))>>
                       ELSE <<>>)
                   \o (IF called /\ c # None THEN PostEvents(f.self, self, r) ELSE <<>>)
            /\ Return(c)
    /\ UNCHANGED <<cache_by_name, store, err, call, pre>>

\* a save that keeps the pre-processed contents: `self.contents = self._pre_process(...)`
save_keeping_processed ==
    /\ Running("save", "body")
    /\ \E s \in SaverReturns(self) :
         LET contents == _pre_process(self, self.contents)
             r == save_result(self, contents, s)
         IN /\ store' = saver_store(self)
            /\ wrappers' = [wrappers EXCEPT ![f.self].contents = contents]
            /\ log' = log \o <<Event(f.self, "save", self.contents, r)>>
                   \o (IF self.cb.pre_processor # "None"
                       THEN <<Event(f.self, "pre_processor", self.contents, contents)>>
                       ELSE <<>>)
                   \o (IF self.cb.saver # "None"
                       THEN <<Event(f.self, "saver", contents, s)>> ELSE <<>>)
            /\ Return(r)
    /\ UNCHANGED <<cache_by_name, err, call, pre>>

\* load, lines 137-141, when a callback raises.  The loader raises at line 139
\* with the contents reset by line 137; the validator raises at line 141 with the
\* loader's result already assigned to self.contents by line 139.
load_raising ==
    /\ Running("load", "body")
    /\ self.cb.loader # "None"
    /\ \/ /\ wrappers' = [wrappers EXCEPT ![f.self].contents = None]
          /\ log' = log \o <<Event(f.self, "load", None, None),
                             Event(f.self, "loader", None, [t |-> "raised"])>>
       \/ \E r \in LoaderReturns(self) \ {None} :
             /\ self.cb.validator # "None"
             /\ wrappers' = [wrappers EXCEPT ![f.self].contents = r]
             /\ log' = log \o <<Event(f.self, "load", None, None),
                                Event(f.self, "loader", None, r),
                                Event(f.self, "validator", r, [t |-> "raised"])>>
    /\ Raise("CallbackError")
    /\ UNCHANGED <<cache_by_name, store, call, pre>>

\* save, lines 157-158
save ==
    /\ Running("save", "body")
    /\ \E s \in SaverReturns(self) :
         LET contents == _pre_process(self, self.contents)
             r == save_result(self, contents, s)
         IN /\ store' = saver_store(self)
            /\ log' = log \o <<Event(f.self, "save", self.contents, r)>>
                   \o (IF self.cb.pre_processor # "None"
                       THEN <<Event(f.self, "pre_processor", self.contents, contents)>>
                       ELSE <<>>)
                   \o (IF self.cb.saver # "None"
                       THEN <<Event(f.self, "saver", contents, s)>> ELSE <<>>)
            /\ Return(r)
    /\ UNCHANGED <<wrappers, cache_by_name, err, call, pre>>

\* a delete that drops the memory cache as well
delete_saved_and_memory ==
    /\ Running("delete_saved_content", "body")
    /\ store' = deleter_store(self)
    /\ wrappers' = [wrappers EXCEPT ![f.self].contents = None]
    /\ log' = log \o <<Event(f.self, "delete", None, None)>>
           \o (IF self.cb.deleter # "None"
               THEN <<Event(f.self, "deleter", None, None)>> ELSE <<>>)
    /\ Return(None)
    /\ UNCHANGED <<cache_by_name, err, call, pre>>

\* delete_saved_content, lines 175-176
delete_saved_content ==
    /\ Running("delete_saved_content", "body")
    /\ store' = deleter_store(self)
    /\ log' = log \o <<Event(f.self, "delete", None, None)>>
           \o (IF self.cb.deleter # "None"
               THEN <<Event(f.self, "deleter", None, None)>> ELSE <<>>)
    /\ Return(None)
    /\ UNCHANGED <<wrappers, cache_by_name, err, call, pre>>

\* a build that keeps contents the load before it left
build_unless_loaded ==
    /\ Running("_build", "body")
    /\ \E b \in BuilderReturns(self) :
         LET c == IF self.contents = None THEN b ELSE self.contents
         IN /\ wrappers' = [wrappers EXCEPT ![f.self].contents = c]
            /\ log' = log \o <<Event(f.self, "_build", None, c)>>
                   \o (IF self.cb.builder # "None"
                       THEN <<Event(f.self, "builder", None, b)>>
                       ELSE <<Event(f.self, "dict_loader", None, b)>>)
    /\ Calls("built", Frame(f.self, "save", "entry", FALSE, 0))
    /\ UNCHANGED <<cache_by_name, store, call, pre>>

\* a build that does not save
build_without_save ==
    /\ Running("_build", "body")
    /\ \E b \in BuilderReturns(self) :
         /\ wrappers' = [wrappers EXCEPT ![f.self].contents = b]
         /\ log' = log \o <<Event(f.self, "_build", None, b)>>
                \o (IF self.cb.builder # "None"
                    THEN <<Event(f.self, "builder", None, b)>>
                    ELSE <<Event(f.self, "dict_loader", None, b)>>)
    /\ Goto([f EXCEPT !.pc = "built"])
    /\ UNCHANGED <<cache_by_name, store, heap, ret, err, call, pre>>

\* _build, lines 120-124: set the contents, then call save()
_build ==
    /\ Running("_build", "body")
    /\ \E b \in BuilderReturns(self) :
         LET c == _post_process(self, b)
         IN /\ wrappers' = [wrappers EXCEPT ![f.self].contents = c]
            /\ log' = log \o <<Event(f.self, "_build", None, c)>>
                   \o (IF self.cb.builder # "None"
                       THEN <<Event(f.self, "builder", None, b)>>
                       ELSE <<Event(f.self, "dict_loader", None, b)>>)
                   \o PostEvents(f.self, self, b)
    /\ Calls("built", Frame(f.self, "save", "entry", FALSE, 0))
    /\ UNCHANGED <<cache_by_name, store, call, pre>>

\* _build, line 126
_build_return ==
    /\ Running("_build", "built")
    /\ Return(self.contents)
    /\ UNCHANGED <<wrappers, cache_by_name, store, err, call, pre, log>>

\* invalidate(a, s) is `return self.load(a, s)`: the frame it amounts to
invalidate(o, apply_to_dependents, seen_caches) ==
    Frame(o, "load", "entry", apply_to_dependents, seen_caches)

\* a rebuild that deletes the saved content last, after the build has saved
rebuild_then_delete ==
    /\ stack # <<>> /\ f.op = "invalidate_and_rebuild"
    /\ \/ f.pc = "invalidate" /\ Calls("build", invalidate(f.self, FALSE, 0))
       \/ f.pc = "build" /\ Calls("delete", Frame(f.self, "_build", "body", FALSE, 0))
       \/ /\ f.pc = "delete"
          /\ Calls("rebuilt", Frame(f.self, "delete_saved_content", "entry", FALSE, 0))
    /\ UNCHANGED <<wrappers, cache_by_name, store, call, pre, log>>

\* invalidate_and_rebuild, lines 183-185, one call at a time
invalidate_and_rebuild ==
    /\ stack # <<>> /\ f.op = "invalidate_and_rebuild"
    /\ \/ f.pc = "invalidate" /\ Calls("delete", invalidate(f.self, FALSE, 0))
       \/ /\ f.pc = "delete"
          /\ Calls("build", Frame(f.self, "delete_saved_content", "entry", FALSE, 0))
       \/ f.pc = "build" /\ Calls("rebuilt", Frame(f.self, "_build", "body", FALSE, 0))
    /\ UNCHANGED <<wrappers, cache_by_name, store, call, pre, log>>

\* invalidate_and_rebuild, line 187: only now are the dependents looked at
invalidate_and_rebuild_cascade ==
    /\ Running("invalidate_and_rebuild", "rebuilt")
    /\ IF f.casc
       THEN Goto([f EXCEPT !.pc = "deps", !.todo = self.dependents])
            /\ UNCHANGED <<heap, ret>>
       ELSE Return(None)
    /\ UNCHANGED <<wrappers, cache_by_name, store, err, call, pre, log>>

\* load_or_build, line 200: `self.load()`
load_or_build ==
    /\ Running("load_or_build", "body")
    /\ Calls("loaded", Frame(f.self, "load", "entry", FALSE, 0))
    /\ UNCHANGED <<wrappers, cache_by_name, store, call, pre, log>>

\* `loaded = bool(self.load())`: an empty mapping counts as not loaded
load_or_build_loaded_if_truthy ==
    /\ Running("load_or_build", "loaded")
    /\ IF Truthy(ret)
       THEN Return(Pair(TRUE, self.contents)) /\ UNCHANGED err
       ELSE Calls("built", Frame(f.self, "_build", "body", FALSE, 0))
    /\ UNCHANGED <<wrappers, cache_by_name, store, call, pre, log>>

\* load_or_build, lines 200-204: `loaded = ... is not None`, build if not
load_or_build_loaded ==
    /\ Running("load_or_build", "loaded")
    /\ IF ret # None
       THEN Return(Pair(TRUE, self.contents)) /\ UNCHANGED err
       ELSE Calls("built", Frame(f.self, "_build", "body", FALSE, 0))
    /\ UNCHANGED <<wrappers, cache_by_name, store, call, pre, log>>

\* load_or_build, line 204, after the build
load_or_build_built ==
    /\ Running("load_or_build", "built")
    /\ Return(Pair(FALSE, self.contents))
    /\ UNCHANGED <<wrappers, cache_by_name, store, err, call, pre, log>>

\* __del__, line 33
__del__ ==
    /\ Running("__del__", "save")
    /\ Calls("saved", Frame(f.self, "save", "entry", FALSE, 0))
    /\ UNCHANGED <<wrappers, cache_by_name, store, call, pre, log>>

\* __del__, lines 34-35; the object is gone afterwards
__del__unregister ==
    /\ Running("__del__", "saved")
    /\ cache_by_name' = IF cache_by_name[self.name] # NoCache
                        THEN [cache_by_name EXCEPT ![self.name] = NoCache]
                        ELSE cache_by_name
    /\ wrappers' = [wrappers EXCEPT ![f.self].st = "dead"]
    /\ Return(None)
    /\ UNCHANGED <<store, err, call, pre, log>>

\* the interpreter runs the innermost frame
Step ==
    \/ Enter
    \/ ForDependent
    \/ EndFor
    \/ load
    \/ save
    \/ delete_saved_content
    \/ _build
    \/ _build_return
    \/ invalidate_and_rebuild
    \/ invalidate_and_rebuild_cascade
    \/ load_or_build
    \/ load_or_build_loaded
    \/ load_or_build_built
    \/ __del__
    \/ __del__unregister

----------------------------------------------------------------------------
(* What the caller does, between calls *)

Snapshot == [wrappers |-> wrappers, cache_by_name |-> cache_by_name, store |-> store]

Begin(op, o, casc, frames) ==
    /\ stack = <<>>
    /\ stack' = frames
    /\ call' = [op |-> op, self |-> o, casc |-> casc]
    /\ pre' = Snapshot
    /\ log' = <<>>
    /\ ret' = None
    /\ err' = "None"
    /\ heap' = <<>>

\* a constructor that registers itself whoever holds the name
init_registering_always(o, cache_name, contents, dependents, kwargs) ==
    /\ wrappers[o].st = "unborn"
    /\ wrappers' = [wrappers EXCEPT ![o] = CacheWrap(cache_name, contents, dependents, kwargs)]
    /\ cache_by_name' = register_cache(cache_name, o)
    /\ Begin("__init__", o, TRUE,
             IF contents = None
             THEN <<Frame(o, "load_or_build", "entry", TRUE, 0)>>
             ELSE <<>>)
    /\ UNCHANGED store

\* __init__, lines 14-30
__init__(o, cache_name, contents, dependents, kwargs) ==
    /\ wrappers[o].st = "unborn"
    /\ wrappers' = [wrappers EXCEPT ![o] = CacheWrap(cache_name, contents, dependents, kwargs)]
    /\ cache_by_name' = IF ~cache_registered(cache_name)
                        THEN register_cache(cache_name, o)
                        ELSE cache_by_name
    /\ Begin("__init__", o, TRUE,
             IF contents = None
             THEN <<Frame(o, "load_or_build", "entry", TRUE, 0)>>
             ELSE <<>>)
    /\ UNCHANGED store

\* a public method called on a live wrapper
Method(o, op, apply_to_dependents) ==
    /\ wrappers[o].st = "alive"
    /\ Begin(op, o, apply_to_dependents,
             <<IF op = "invalidate" THEN invalidate(o, apply_to_dependents, 0)
               ELSE Frame(o, op, "entry", apply_to_dependents, 0)>>)
    /\ UNCHANGED <<wrappers, cache_by_name, store>>

\* hashable objects that are not strings and have a `name` attribute
Named == {"<A>", "<B>"}

\* _convert_dependent_to_name, lines 106-107: a string is a name, anything else
\* is asked for its name
_convert_dependent_to_name(dependent) ==
    IF dependent \in Names THEN dependent
    ELSE IF dependent \in ObjIds THEN wrappers[dependent].name
    ELSE IF dependent = "<A>" THEN "A" ELSE "B"

\* add_dependent, line 207: `self.dependents.add(dependent)`, the argument as it
\* is.  A CacheWrap is a Mapping and so unhashable: set.add raises TypeError.
add_dependent(o, dependent) ==
    /\ stack = <<>>
    /\ wrappers[o].st = "alive"
    /\ dependent \in ObjIds => wrappers[dependent].st = "alive"
    /\ call' = [op |-> "add_dependent", self |-> o, casc |-> FALSE]
    /\ pre' = Snapshot
    /\ log' = <<Event(o, "add_dependent", [t |-> "str", s |-> dependent], None)>>
    /\ ret' = None
    /\ IF dependent \in ObjIds
       THEN err' = "TypeError" /\ UNCHANGED wrappers
       ELSE /\ err' = "None"
            /\ wrappers' = [wrappers EXCEPT ![o].dependents = @ \cup {dependent}]
    /\ UNCHANGED <<cache_by_name, store, stack, heap>>

\* the values the item-level operations hand back
Str(x) == [t |-> "str", s |-> x]
PyInt(n) == [t |-> "int", n |-> n]
KeyIter(d) == [t |-> "iter", keys |-> DOMAIN d.m]

\* _check_contents_present, lines 55-57: the exception it raises, if any
_check_contents_present(w) ==
    IF w.contents = None THEN "AttributeError" ELSE "None"

\* a top-level call of a mapping operation on wrapper o: it returns result or
\* raises error, and leaves o holding contents
Item(op, o, arg, result, error, contents) ==
    /\ stack = <<>>
    /\ wrappers[o].st = "alive"
    /\ call' = [op |-> op, self |-> o, casc |-> FALSE]
    /\ pre' = Snapshot
    /\ log' = <<Event(o, op, arg, result)>>
    /\ ret' = IF error = "None" THEN result ELSE None
    /\ err' = error
    /\ wrappers' = [wrappers EXCEPT ![o].contents = contents]
    /\ UNCHANGED <<cache_by_name, store, stack, heap>>

\* `key in wrapper`, lines 59-62 (named so in the record of the call)
contains(o, key) ==
    LET w == wrappers[o]
    IN Item("__contains__", o, Str(key), Bool(__contains__(w, key)), "None", w.contents)

\* __getitem__, lines 64-66
__getitem__(o, key) ==
    LET w == wrappers[o]
        e == _check_contents_present(w)
    IN IF e # "None" THEN Item("__getitem__", o, Str(key), None, e, w.contents)
       ELSE IF key \in DOMAIN w.contents.m
       THEN Item("__getitem__", o, Str(key), Str(w.contents.m[key]), "None", w.contents)
       ELSE Item("__getitem__", o, Str(key), None, "KeyError", w.contents)

\* a __setitem__ that makes a mapping when there is none
setitem_creating(o, key, value) ==
    LET w == wrappers[o]
        m == IF w.contents = None THEN <<>> ELSE w.contents.m
    IN Item("__setitem__", o, Pair(Str(key), Str(value)), None, "None",
            Dict([x \in DOMAIN m \cup {key} |-> IF x = key THEN value ELSE m[x]]))

\* __setitem__, lines 68-70
__setitem__(o, key, value) ==
    LET w == wrappers[o]
        e == _check_contents_present(w)
    IN IF e # "None"
       THEN Item("__setitem__", o, Pair(Str(key), Str(value)), None, e, w.contents)
       ELSE Item("__setitem__", o, Pair(Str(key), Str(value)), None, "None",
                 Dict([x \in DOMAIN w.contents.m \cup {key} |->
                          IF x = key THEN value ELSE w.contents.m[x]]))

\* __delitem__, lines 72-74
__delitem__(o, key) ==
    LET w == wrappers[o]
        e == _check_contents_present(w)
    IN IF e # "None" THEN Item("__delitem__", o, Str(key), None, e, w.contents)
       ELSE IF key \in DOMAIN w.contents.m
       THEN Item("__delitem__", o, Str(key), None, "None",
                 Dict([x \in DOMAIN w.contents.m \ {key} |-> w.contents.m[x]]))
       ELSE Item("__delitem__", o, Str(key), None, "KeyError", w.contents)

\* __iter__, lines 76-78
__iter__(o) ==
    LET w == wrappers[o]
        e == _check_contents_present(w)
    IN IF e # "None" THEN Item("__iter__", o, None, None, e, w.contents)
       ELSE Item("__iter__", o, None, KeyIter(w.contents), "None", w.contents)

\* __len__, lines 80-82
__len__(o) ==
    LET w == wrappers[o]
        e == _check_contents_present(w)
    IN IF e # "None" THEN Item("__len__", o, None, None, e, w.contents)
       ELSE Item("__len__", o, None, PyInt(Cardinality(DOMAIN w.contents.m)), "None",
                 w.contents)

\* the wrapper is discarded
Discard(o) ==
    /\ wrappers[o].st = "alive"
    /\ Begin("__del__", o, FALSE, <<Frame(o, "__del__", "save", FALSE, 0)>>)
    /\ UNCHANGED <<wrappers, cache_by_name, store>>

PublicOps ==
    {"load", "save", "invalidate", "delete_saved_content", "invalidate_and_rebuild",
     "load_or_build"}

----------------------------------------------------------------------------
(* Specifications: the same program, explored over different callers *)

Opt(c) == {"None", c}

\* the caller's callback kwargs: any of the seven, at most MaxCallbacks at once
Kwargs ==
    {k \in [loader : Opt("loader"), saver : Opt("saver"), builder : Opt("builder"),
            deleter : Opt("deleter"), pre_processor : Opt("pre_processor"),
            post_processor : Opt("post_processor"), validator : Opt("validator")] :
        Cardinality({c \in DOMAIN k : k[c] # "None"}) <= MaxCallbacks}

\* CacheWrap, NonPersistentCache or PersistentCache over those kwargs
Configs ==
    Kwargs \cup {NonPersistentCache(k) : k \in Kwargs}
           \cup {PersistentCache(k) : k \in Kwargs}

\* One wrapper in every configuration, and one plain dependent of it
Next ==
    \/ \E c \in {None, KV}, d \in {{}, {"A", "B"}}, k \in Configs :
          __init__("w1", "A", c, d, k)
    \/ __init__("w2", "B", Empty, {"A"}, NonPersistentCache(NoCallbacks))
    \/ \E op \in PublicOps, a \in BOOLEAN : Method("w1", op, a)
    \/ Discard("w1")
    \/ Step

Spec == Init /\ [][Next]_vars

\* Three uniquely named wrappers over every dependency graph, called (and in the end
\* discarded) at the root w1; a wrapper not constructed yet is an unregistered name.
\* They load the default mapping, and w3 may have no loader at all
NextGraph ==
    \/ \E o \in ObjIds, d \in SUBSET Names :
          __init__(o, NameOf(o), Empty, d, NonPersistentCache(NoCallbacks))
    \/ \E d \in SUBSET Names : __init__("w3", "C", Empty, d, NoCallbacks)
    \/ \E op \in PublicOps : Method("w1", op, TRUE)
    \/ Discard("w1")
    \/ Step

SpecGraph == Init /\ [][NextGraph]_vars

\* the interpreter does not stop in the middle of a call
FairGraph == SpecGraph /\ WF_vars(Step)

\* Two wrappers that persist or delete, each possibly a dependent of the other
PairConfigs ==
    {PersistentCache(NoCallbacks), [NoCallbacks EXCEPT !.deleter = "deleter"]}

NextPair ==
    \/ \E o \in {"w1", "w2"}, c \in {None, KV}, d \in SUBSET {"A", "B"},
          k \in PairConfigs : __init__(o, NameOf(o), c, d, k)
    \/ \E op \in PublicOps, a \in BOOLEAN : Method("w1", op, a)
    \/ \E o \in {"w1", "w2"} : Discard(o)
    \/ Step

SpecPair == Init /\ [][NextPair]_vars

\* persistent wrappers without processors or validator, with or without a builder
RoundTripConfigs ==
    {PersistentCache(NoCallbacks), PersistentCache([NoCallbacks EXCEPT !.builder = "builder"])}

\* w1.save() has just returned, and w1 holds something
Saved ==
    /\ stack = <<>> /\ err = "None"
    /\ call.op = "save" /\ call.self = "w1"
    /\ wrappers["w1"].st = "alive" /\ wrappers["w1"].contents # None

\* w2 is the fresh wrapper made under w1's name
Fresh == wrappers["w2"].st = "alive" /\ wrappers["w2"].name = wrappers["w1"].name

\* A persistent wrapper is saved, and a fresh one of the same name is made right
\* after and asked to load_or_build; w2 under another name is just a dependent
NextRoundTrip ==
    \/ \E c \in {None, Empty, KV}, d \in {{}, {"B"}}, k \in RoundTripConfigs :
          __init__("w1", "A", c, d, k)
    \/ \E op \in PublicOps, a \in BOOLEAN : ~Fresh /\ Method("w1", op, a)
    \/ \E d \in {{}, {"A"}}, k \in RoundTripConfigs :
          Saved /\ __init__("w2", "A", None, d, k)
    \/ \E k \in RoundTripConfigs : __init__("w2", "B", None, {}, k)
    \/ \E a \in BOOLEAN : Method("w2", "load_or_build", a)
    \/ ~Fresh /\ Discard("w1")
    \/ Discard("w2")
    \/ Step

SpecRoundTrip == Init /\ [][NextRoundTrip]_vars

ItemKeys == {"j", "k"}
ItemValues == {"v", "w"}

\* A wrapper used as a mapping between its other operations
NextMapping ==
    \/ \E c \in {None, Empty, KV}, k \in {NoCallbacks, PersistentCache(NoCallbacks)} :
          __init__("w1", "A", c, {"B"}, k)
    \/ __init__("w2", "B", Empty, {"A"}, NonPersistentCache(NoCallbacks))
    \/ \E op \in PublicOps, a \in BOOLEAN : Method("w1", op, a)
    \/ \E key \in ItemKeys : contains("w1", key)
    \/ \E key \in ItemKeys : __getitem__("w1", key)
    \/ \E key \in ItemKeys, value \in ItemValues : __setitem__("w1", key, value)
    \/ \E key \in ItemKeys : __delitem__("w1", key)
    \/ __iter__("w1")
    \/ __len__("w1")
    \/ Discard("w1")
    \/ Step

SpecMapping == Init /\ [][NextMapping]_vars

\* Two wrappers made under one name, in either order, and a third that names them
\* as its dependent
NextCollide ==
    \/ \E o \in {"w1", "w2"}, c \in {None, KV}, d \in {{}, {"C"}},
          k \in {NoCallbacks, PersistentCache(NoCallbacks)} :
          __init__(o, "A", c, d, k)
    \/ __init__("w3", "C", Empty, {"A"}, NonPersistentCache(NoCallbacks))
    \/ \E o \in {"w1", "w3"}, op \in PublicOps, a \in BOOLEAN : Method(o, op, a)
    \/ \E o \in ObjIds : Discard(o)
    \/ Step

SpecCollide == Init /\ [][NextCollide]_vars

\* A wrapper that is given its dependents after construction: by name, as a
\* wrapper, or as another object that has a name
NextDependents ==
    \/ \E c \in {None, KV}, k \in {NoCallbacks, PersistentCache(NoCallbacks)} :
          __init__("w1", "A", c, {}, k)
    \/ __init__("w2", "B", Empty, {"A"}, NonPersistentCache(NoCallbacks))
    \/ \E d \in {"A", "B", "w2"} \cup Named : add_dependent("w1", d)
    \/ \E op \in PublicOps, a \in BOOLEAN : Method("w1", op, a)
    \/ Discard("w1")
    \/ Step

SpecDependents == Init /\ [][NextDependents]_vars

\* Callbacks of the wrapper's load that may raise instead of returning
NextRaising ==
    \/ \E c \in {None, Empty, KV},
          k \in {[NoCallbacks EXCEPT !.loader = "loader"],
                 [NoCallbacks EXCEPT !.loader = "loader", !.validator = "validator"],
                 PersistentCache([NoCallbacks EXCEPT !.validator = "validator"])} :
          __init__("w1", "A", c, {"B"}, k)
    \/ __init__("w2", "B", Empty, {"A"}, NonPersistentCache(NoCallbacks))
    \/ \E op \in PublicOps, a \in BOOLEAN : Method("w1", op, a)
    \/ Discard("w1")
    \/ Step
    \/ load_raising

SpecRaising == Init /\ [][NextRaising]_vars

----------------------------------------------------------------------------
(* Reading the record of a call *)

Finished == stack = <<>>

Root == wrappers[call.self]

\* how often wrapper o ran event ev in the current top-level call
Count(o, ev) == Cardinality({i \in 1..Len(log) : log[i].self = o /\ log[i].ev = ev})

Touched(o) == \E i \in 1..Len(log) : log[i].self = o

\* the position of o's first event ev in the log (0 if none)
First(o, ev) ==
    LET at == {i \in 1..Len(log) : log[i].self = o /\ log[i].ev = ev}
    IN IF at = {} THEN 0 ELSE CHOOSE i \in at : \A j \in at : i <= j

\* the registered wrappers the dependents of the wrappers in R name
Dependents(R) ==
    {retrieve_cache(d) : d \in UNION {wrappers[o].dependents : o \in R}} \ {NoCache}

RECURSIVE Closure(_)
Closure(R) == IF Dependents(R) \subseteq R THEN R ELSE Closure(R \cup Dependents(R))

\* the root and every registered wrapper reachable from it through dependents
Reachable(o) == Closure({o})

\* every live wrapper is the one registered under its name
UniquelyRegistered ==
    \A o \in ObjIds : wrappers[o].st = "alive" => cache_by_name[wrappers[o].name] = o

\* the node-local actions each public operation performs on a node it visits
NodeActions(op) ==
    CASE op \in {"load", "invalidate", "load_or_build"} -> {"load"}
      [] op = "save" -> {"save"}
      [] op = "delete_saved_content" -> {"delete"}
      [] op = "invalidate_and_rebuild" -> {"load", "delete", "_build", "save"}
      [] OTHER -> {}

----------------------------------------------------------------------------
(* C1: a top-level cascading call over uniquely named, registered wrappers runs  *)
(* its node-local action exactly once on the root and on every registered       *)
(* wrapper reachable from it through dependents, and touches no other wrapper.   *)
(* load_or_build loads each of them once and builds (then saves) at most once.   *)
C1_CascadeVisitsOnce ==
    (Finished /\ call.op \in PublicOps /\ call.casc /\ UniquelyRegistered) =>
        \A o \in ObjIds :
            IF o \in Reachable(call.self)
            THEN /\ \A ev \in NodeActions(call.op) : Count(o, ev) = 1
                 /\ wrappers[o].cb.loader # "None" /\ "load" \in NodeActions(call.op)
                        => Count(o, "loader") = 1
                 /\ call.op = "load_or_build" =>
                        /\ Count(o, "_build") <= 1
                        /\ Count(o, "save") = Count(o, "_build")
                 /\ Count(o, "_build") = Count(o, "builder") + Count(o, "dict_loader")
            ELSE ~Touched(o)

\* a cascading invalidate has run over a diamond closed into a cycle
C1_Witness ==
    /\ Finished /\ call.op = "invalidate" /\ call.casc /\ UniquelyRegistered
    /\ \A o \in ObjIds : wrappers[o].st = "alive"
    /\ wrappers["w1"].dependents = {"A", "B", "C"}
    /\ wrappers["w2"].dependents = {"C"}
    /\ wrappers["w3"].dependents = {"A"}
    /\ Count("w3", "load") = 1

(* C2: every top-level call (cascading over any dependency graph, with mutual    *)
(* dependents and self-dependents) returns: the stack empties and no recursion    *)
(* limit or other exception ended it.                                             *)
C2_CascadeReturns == (stack # <<>>) ~> (Finished /\ err = "None")

\* load_or_build has cascaded over mutual dependents that also list themselves
C2_Witness ==
    /\ Finished /\ call.op = "load_or_build" /\ call.casc /\ err = "None"
    /\ {"A", "B"} \subseteq wrappers["w1"].dependents
    /\ {"A", "B"} \subseteq wrappers["w2"].dependents
    /\ wrappers["w1"].st = "alive" /\ wrappers["w2"].st = "alive"
    /\ Count("w1", "load") = 1 /\ Count("w2", "load") = 1

(* C8: a cascading call that meets a dependent name nobody is registered under   *)
(* raises nothing: the name is skipped, and the node action is performed on the   *)
(* root and on every registered wrapper reachable from it.                        *)
HasUnregisteredDependent(R) ==
    \E o \in R : \E d \in wrappers[o].dependents : retrieve_cache(d) = NoCache

C8_UnregisteredSkipped ==
    (Finished /\ call.op \in PublicOps /\ call.casc
        /\ HasUnregisteredDependent(Reachable(call.self))) =>
        /\ err = "None"
        /\ \A o \in Reachable(call.self) :
              \A ev \in NodeActions(call.op) : Count(o, ev) >= 1

\* the root names an unregistered dependent and a registered one, which was visited
C8_Witness ==
    /\ Finished /\ call.op = "save" /\ call.casc /\ err = "None"
    /\ wrappers["w1"].dependents = {"B", "C"}
    /\ wrappers["w2"].st = "alive" /\ wrappers["w3"].st # "alive"
    /\ retrieve_cache("C") = NoCache
    /\ Count("w1", "save") = 1 /\ Count("w2", "save") = 1

(* C3: delete_saved_content, cascading or not, leaves the in-memory contents of   *)
(* every wrapper as they were when it was called, and runs nothing but deleters.  *)
C3_DeleteKeepsMemory ==
    call.op = "delete_saved_content" =>
        /\ \A o \in ObjIds : wrappers[o].contents = pre.wrappers[o].contents
        /\ \A i \in 1..Len(log) : log[i].ev \in {"delete", "deleter"}

\* a cascading delete has run the deleters of a loaded root and its dependent
C3_Witness ==
    /\ Finished /\ call.op = "delete_saved_content" /\ call.casc
    /\ Count("w1", "deleter") = 1 /\ Count("w2", "deleter") = 1
    /\ wrappers["w1"].contents = KV /\ wrappers["w2"].contents # None
    /\ pre.store["A"] # None /\ store["A"] = None

\* the result the loader handed to wrapper o in this call (None if it was not called)
Loaded(o) == IF Count(o, "loader") = 0 THEN None ELSE log[First(o, "loader")].res

(* C4: after load(): with no loader, a loader that returned nothing, or a         *)
(* validator that rejects the result, the wrapper holds nothing and load returns   *)
(* None, whatever it held before (and no key is `in` it); otherwise it holds       *)
(* validator-approved contents and load returns them.                             *)
C4_LoadOutcome ==
    (Finished /\ call.op \in {"load", "invalidate"}) =>
        LET w == Root
            r == Loaded(call.self)
        IN /\ Count(call.self, "loader") = (IF w.cb.loader = "None" THEN 0 ELSE 1)
           /\ IF \/ w.cb.loader = "None"
                 \/ r = None
                 \/ (w.cb.validator # "None" /\ ~validator(r))
              THEN /\ w.contents = None
                   /\ ret = None
                   /\ \A key \in Keys : ~__contains__(w, key)
              ELSE /\ w.contents # None
                   /\ w.cb.validator # "None" => validator(w.contents)
                   /\ ret = w.contents

\* a wrapper that held {"k": "v"} was emptied by a load whose validator said no
C4_Witness ==
    /\ Finished /\ call.op = "load"
    /\ pre.wrappers[call.self].contents = KV
    /\ Root.cb.validator # "None"
    /\ Loaded(call.self) = Empty
    /\ Root.contents = None /\ ret = None

(* C5: a top-level load_or_build whose load ends Loaded returns (True, contents)  *)
(* and runs neither builder nor saver; one whose load ends Unloaded runs the       *)
(* builder (the default constructor if there is none) once, then save once, and    *)
(* returns (False, contents).                                                      *)
C5_LoadOrBuild ==
    (Finished /\ call.op = "load_or_build") =>
        LET o == call.self
            w == Root
        IN /\ Count(o, "load") = 1
           /\ IF log[First(o, "load")].res # None
              THEN /\ ret = Pair(TRUE, w.contents)
                   /\ w.contents = log[First(o, "load")].res
                   /\ \A ev \in {"_build", "builder", "dict_loader", "save", "saver"} :
                         Count(o, ev) = 0
              ELSE /\ ret = Pair(FALSE, w.contents)
                   /\ Count(o, "_build") = 1
                   /\ Count(o, "builder") = (IF w.cb.builder = "None" THEN 0 ELSE 1)
                   /\ Count(o, "dict_loader") = (IF w.cb.builder = "None" THEN 1 ELSE 0)
                   /\ Count(o, "save") = 1
                   /\ Count(o, "saver") = (IF w.cb.saver = "None" THEN 0 ELSE 1)
                   /\ First(o, "_build") < First(o, "save")
                   /\ w.contents = log[First(o, "_build")].res

\* the validator rejected what the loader returned, and the builder ran once
C5_Witness ==
    /\ Finished /\ call.op = "load_or_build"
    /\ Root.cb.validator # "None" /\ Root.cb.builder # "None"
    /\ Loaded(call.self) = Empty
    /\ Count(call.self, "builder") = 1
    /\ ret = Pair(FALSE, KV)

(* C7: after a top-level invalidate_and_rebuild() on w the registry maps every    *)
(* name to the wrapper it mapped to before, w's name, dependents and callbacks     *)
(* are unchanged, and w's contents are what this call built (the builder's result, *)
(* or an empty mapping without a builder), whatever w held before.                 *)
C7_RebuildInPlace ==
    (Finished /\ call.op = "invalidate_and_rebuild") =>
        LET o == call.self
            w == Root
            was == pre.wrappers[o]
        IN /\ cache_by_name = pre.cache_by_name
           /\ w.st = "alive"
           /\ w.name = was.name /\ w.dependents = was.dependents /\ w.cb = was.cb
           /\ Count(o, "_build") = 1
           /\ IF w.cb.builder = "None"
              THEN w.contents = Empty
              ELSE Count(o, "builder") = 1 /\ w.contents = log[First(o, "builder")].res

\* a wrapper holding {"k": "v"}, whose loader finds it again, is rebuilt to {}
C7_Witness ==
    /\ Finished /\ call.op = "invalidate_and_rebuild"
    /\ pre.wrappers[call.self].contents = KV
    /\ Loaded(call.self) = KV
    /\ Count(call.self, "builder") = 1
    /\ Root.contents = Empty
    /\ cache_by_name[Root.name] = call.self

\* the wrappers the current call has built
Built == {o \in ObjIds : Count(o, "_build") > 0}

\* build saved wrapper o once, after it had set the contents o still has
SavedOnceAfterBuild(o) ==
    /\ Count(o, "_build") = 1
    /\ Count(o, "save") = 1
    /\ First(o, "_build") < First(o, "save")
    /\ log[First(o, "save")].arg = wrappers[o].contents

(* C9 as the spec states it: once a build (through load_or_build or               *)
(* invalidate_and_rebuild) has returned, the wrapper's contents are present and,   *)
(* if a validator is configured, approved by it, and save ran once after the       *)
(* contents were set.                                                              *)
C9_BuildEndsLoaded ==
    (Finished /\ err = "None") =>
        \A o \in Built :
            /\ wrappers[o].contents # None
            /\ wrappers[o].cb.validator # "None" => validator(wrappers[o].contents)
            /\ SavedOnceAfterBuild(o)

(* C9 amended: once a build has returned, the wrapper's contents are exactly what  *)
(* the builder returned (an empty mapping without a builder), present or not; the  *)
(* validator is not consulted on them; and save ran once after they were set.      *)
C9_BuildSetsThenSaves ==
    (Finished /\ err = "None") =>
        \A o \in Built :
            /\ IF wrappers[o].cb.builder = "None"
               THEN wrappers[o].contents = Empty
               ELSE wrappers[o].contents = log[First(o, "builder")].res
            /\ \A i \in 1..Len(log) :
                  (log[i].self = o /\ log[i].ev = "validator") => i < First(o, "_build")
            /\ SavedOnceAfterBuild(o)

\* a load_or_build whose validator rejected the loaded {} built and kept {} all the same
C9_Witness ==
    /\ Finished /\ err = "None" /\ call.op = "load_or_build"
    /\ Root.cb.validator # "None" /\ Root.cb.builder # "None"
    /\ Count(call.self, "validator") = 1 /\ Count(call.self, "builder") = 1
    /\ log[First(call.self, "builder")].res = Empty
    /\ Root.contents = Empty
    /\ SavedOnceAfterBuild(call.self)

(* C10 as the spec states it: save() hands the saver (name, pre-processed          *)
(* contents) and returns exactly what the saver returned, whatever that is;        *)
(* without a saver it returns the pre-processed contents.                          *)
C10_SaveReturnsSaverResult ==
    (Finished /\ call.op = "save") =>
        LET o == call.self
            contents == _pre_process(Root, Root.contents)
        IN IF Root.cb.saver = "None"
           THEN Count(o, "saver") = 0 /\ ret = contents
           ELSE /\ Count(o, "saver") = 1
                /\ log[First(o, "saver")].arg = contents
                /\ ret = log[First(o, "saver")].res

(* C6: round trip. A persistent wrapper w1 (no processors, no validator) holds     *)
(* contents c and is saved; a fresh persistent wrapper of the same name, made      *)
(* right after with no initial contents, holds c, its load_or_build() returns      *)
(* (True, c), and its builder is never invoked.                                    *)
C6_RoundTrip ==
    (Finished /\ Fresh /\ call.self = "w2" /\ call.op \in {"__init__", "load_or_build"}) =>
        LET c == wrappers["w1"].contents
        IN /\ c # None
           /\ err = "None"
           /\ wrappers["w2"].contents = c
           /\ \A ev \in {"_build", "builder", "dict_loader"} : Count("w2", ev) = 0
           /\ call.op = "load_or_build" => ret = Pair(TRUE, c)

\* the fresh wrapper, which has a builder, answered (True, {}) from what w1 saved
C6_Witness ==
    /\ Finished /\ Fresh /\ call.self = "w2" /\ call.op = "load_or_build"
    /\ wrappers["w2"].cb.builder # "None"
    /\ wrappers["w1"].contents = Empty
    /\ store["A"] = Empty
    /\ ret = Pair(TRUE, Empty)

(* C11: save(), cascading or not, on a wrapper that holds contents or none,        *)
(* leaves every wrapper as it was before the call: contents, callbacks, name and   *)
(* dependents, and with them the lifecycle state.                                  *)
C11_SaveKeepsContents ==
    call.op = "save" => wrappers = pre.wrappers

\* a cascading save ran a pre-processor that changes {"k": "v"} and a saver, and
\* saved the dependent too
C11_Witness ==
    /\ Finished /\ call.op = "save" /\ call.casc
    /\ Root.contents = KV
    /\ Count("w1", "pre_processor") = 1 /\ Count("w1", "saver") = 1
    /\ log[First("w1", "saver")].arg = KW
    /\ Count("w2", "save") = 1

\* the item-level operations, and the membership test
ItemOps == {"__getitem__", "__setitem__", "__delitem__", "__iter__", "__len__"}

(* C12: on a wrapper without contents a membership test answers False for every   *)
(* key and each item-level operation (get, set, delete, iterate, len) fails with   *)
(* the contents-absent error and leaves the wrapper without contents; on a wrapper *)
(* with contents each gives what the same operation on the mapping gives.          *)
C12_MappingProxy ==
    (Finished /\ call.op \in ItemOps \cup {"__contains__"}) =>
        LET was == pre.wrappers[call.self].contents
            now == Root.contents
            arg == log[1].arg
        IN IF was = None
           THEN /\ now = None
                /\ IF call.op = "__contains__"
                   THEN ret = Bool(FALSE) /\ err = "None"
                   ELSE err = "AttributeError"
           ELSE CASE call.op = "__contains__" ->
                       /\ ret = Bool(arg.s \in DOMAIN was.m) /\ err = "None" /\ now = was
                  [] call.op = "__getitem__" ->
                       /\ now = was
                       /\ IF arg.s \in DOMAIN was.m
                          THEN ret = Str(was.m[arg.s]) /\ err = "None"
                          ELSE err = "KeyError"
                  [] call.op = "__setitem__" ->
                       /\ err = "None"
                       /\ DOMAIN now.m = DOMAIN was.m \cup {arg.a.s}
                       /\ now.m[arg.a.s] = arg.b.s
                       /\ \A x \in DOMAIN was.m \ {arg.a.s} : now.m[x] = was.m[x]
                  [] call.op = "__delitem__" ->
                       IF arg.s \in DOMAIN was.m
                       THEN /\ err = "None"
                            /\ DOMAIN now.m = DOMAIN was.m \ {arg.s}
                            /\ \A x \in DOMAIN now.m : now.m[x] = was.m[x]
                       ELSE err = "KeyError" /\ now = was
                  [] call.op = "__iter__" ->
                       /\ ret = [t |-> "iter", keys |-> DOMAIN was.m] /\ err = "None"
                       /\ now = was
                  [] call.op = "__len__" ->
                       /\ ret = PyInt(Cardinality(DOMAIN was.m)) /\ err = "None"
                       /\ now = was

\* a load without a loader emptied the wrapper, and setting an item on it failed
C12_Witness ==
    /\ Finished /\ call.op = "__setitem__"
    /\ Root.cb.loader = "None"
    /\ Root.contents = None
    /\ err = "AttributeError"
    /\ store["A"] = None

(* C13 as the spec states it: when a wrapper is constructed under a name, the      *)
(* registry maps that name to it afterwards, whoever held the name before (the     *)
(* last registrant wins).                                                          *)
C13_LastRegistrantWins ==
    (Finished /\ call.op = "__init__") => cache_by_name[Root.name] = call.self

(* C13 amended: a construction under a name the registry already holds leaves the  *)
(* registry as it was (the first registrant wins), and a cascade that resolves the *)
(* name as a dependent reaches the wrapper registered under it and no other.       *)
C13_FirstRegistrantWins ==
    /\ call.op = "__init__" =>
          IF pre.cache_by_name[Root.name] # NoCache
          THEN cache_by_name = pre.cache_by_name
          ELSE cache_by_name = [pre.cache_by_name EXCEPT ![Root.name] = call.self]
    /\ (call.op \in PublicOps /\ call.casc) =>
          \A o \in ObjIds \ {call.self} :
              Touched(o) => cache_by_name[wrappers[o].name] = o

\* w2 was made under the name w1 holds, and the name still resolves to w1
C13_Witness ==
    /\ Finished /\ call.op = "__init__" /\ call.self = "w2"
    /\ wrappers["w1"].st = "alive" /\ wrappers["w1"].name = wrappers["w2"].name
    /\ pre.cache_by_name["A"] = "w1"
    /\ cache_by_name["A"] = "w1"

(* C14: a discarded wrapper saves itself once, without cascading, and removes only *)
(* itself from the registry: no entry maps to it afterwards, and every entry that  *)
(* mapped to another wrapper before, one under the same name included, is as it    *)
(* was.                                                                            *)
C14_DiscardRemovesOnlyItself ==
    (Finished /\ call.op = "__del__") =>
        /\ Count(call.self, "save") = 1
        /\ \A o \in ObjIds \ {call.self} : ~Touched(o)
        /\ \A n \in Names :
              /\ cache_by_name[n] # call.self
              /\ pre.cache_by_name[n] # call.self => cache_by_name[n] = pre.cache_by_name[n]

(* C15: add_dependent(d) puts a name into the dependents set, d itself when d is   *)
(* a name and d's name when d is a wrapper or another value that has a name, so    *)
(* that a later cascade reaches the wrapper of that name; and it is idempotent.    *)
C15_AddDependentByName ==
    /\ (Finished /\ call.op = "add_dependent") =>
          /\ err = "None"
          /\ Root.dependents =
                pre.wrappers[call.self].dependents
                    \cup {_convert_dependent_to_name(log[1].arg.s)}
    /\ \A o \in ObjIds : wrappers[o].dependents \subseteq Names

\* every event of wrapper a in the current call precedes every event of wrapper b
Before(a, b) ==
    \A i, j \in 1..Len(log) : (log[i].self = a /\ log[j].self = b) => i < j

\* the frames of nodes that are calling their dependents
Recursing == {i \in 1..Len(stack) : stack[i].pc = "deps"}

(* C16 as the spec states it: in every cascading operation a node acts only after  *)
(* its calls on its dependents have returned, so a node that is calling its        *)
(* dependents has not acted yet, and the root acts after every other node.         *)
C16_ActionAfterDependents ==
    /\ \A i \in Recursing : ~Touched(stack[i].self)
    /\ (Finished /\ call.op \in PublicOps /\ call.casc) =>
          \A o \in ObjIds \ {call.self} : Before(o, call.self)

(* C16 amended: load, save, invalidate, delete_saved_content and load_or_build     *)
(* have that shape; invalidate_and_rebuild has the opposite one: a node has done   *)
(* its whole action (load, delete, build, save) before it calls its dependents,    *)
(* and the root acts before every other node.                                      *)
C16_ActionAfterDependentsButRebuild ==
    /\ \A i \in Recursing :
          IF stack[i].op = "invalidate_and_rebuild"
          THEN \A ev \in NodeActions("invalidate_and_rebuild") :
                  Count(stack[i].self, ev) = 1
          ELSE ~Touched(stack[i].self)
    /\ (Finished /\ call.op \in PublicOps /\ call.casc) =>
          \A o \in ObjIds \ {call.self} :
              IF call.op = "invalidate_and_rebuild"
              THEN Before(call.self, o)
              ELSE Before(o, call.self)

\* w1 is calling its dependents in a cascading save; w2 has saved, and w2's
\* dependent w3 saved before it
C16_Witness ==
    /\ stack # <<>> /\ Len(stack) = 1 /\ f.pc = "deps" /\ f.op = "save" /\ f.self = "w1"
    /\ "B" \in wrappers["w1"].dependents /\ "C" \in wrappers["w2"].dependents
    /\ Count("w2", "save") = 1 /\ Count("w3", "save") = 1
    /\ Before("w3", "w2")
    /\ ~Touched("w1")

\* the last event of wrapper o in the current call (0 if none)
Last(o) ==
    LET at == {i \in 1..Len(log) : log[i].self = o}
    IN IF at = {} THEN 0 ELSE CHOOSE i \in at : \A j \in at : j <= i

\* events a then b of wrapper o: each at most once, and in that order if both ran
InOrder(o, a, b) ==
    /\ Count(o, a) <= 1 /\ Count(o, b) <= 1
    /\ (Count(o, a) = 1 /\ Count(o, b) = 1) => First(o, a) < First(o, b)

(* C17: in a top-level invalidate_and_rebuild every visited node does the whole    *)
(* operation on itself in the order load, delete, build, save (its loader,         *)
(* deleter, builder and saver in that order), the root has finished before any     *)
(* dependent starts, and without cascade no dependent runs anything or changes.    *)
C17_RebuildOrder ==
    (Finished /\ call.op = "invalidate_and_rebuild") =>
        /\ err = "None"
        /\ Touched(call.self)
        /\ \A o \in ObjIds : Touched(o) =>
              /\ \A ev \in NodeActions("invalidate_and_rebuild") : Count(o, ev) = 1
              /\ First(o, "load") < First(o, "delete")
              /\ First(o, "delete") < First(o, "_build")
              /\ First(o, "_build") < First(o, "save")
              /\ Count(o, "loader") = (IF wrappers[o].cb.loader = "None" THEN 0 ELSE 1)
              /\ Count(o, "deleter") = (IF wrappers[o].cb.deleter = "None" THEN 0 ELSE 1)
              /\ Count(o, "saver") = (IF wrappers[o].cb.saver = "None" THEN 0 ELSE 1)
              /\ Count(o, "builder") + Count(o, "dict_loader") = 1
              /\ InOrder(o, "loader", "deleter")
              /\ InOrder(o, "deleter", "builder") /\ InOrder(o, "deleter", "dict_loader")
              /\ InOrder(o, "deleter", "saver")
              /\ InOrder(o, "builder", "saver") /\ InOrder(o, "dict_loader", "saver")
              /\ o # call.self => First(o, "load") > Last(call.self)
        /\ ~call.casc =>
              \A o \in ObjIds \ {call.self} :
                  ~Touched(o) /\ wrappers[o].contents = pre.wrappers[o].contents

\* root and dependent both deleted and re-saved their persisted content, the
\* root first
C17_Witness ==
    /\ Finished /\ call.op = "invalidate_and_rebuild" /\ call.casc
    /\ Count("w1", "deleter") = 1 /\ Count("w1", "saver") = 1
    /\ Count("w2", "deleter") = 1 /\ Count("w2", "saver") = 1
    /\ First("w1", "deleter") < First("w1", "saver")
    /\ First("w1", "saver") < First("w2", "loader")
    /\ pre.store["A"] = KV /\ store["A"] = Empty

\* what this call's builder, or the default constructor, returned to wrapper o
BuiltFrom(o) ==
    IF Count(o, "builder") > 0 THEN log[First(o, "builder")].res
    ELSE IF Count(o, "dict_loader") > 0 THEN log[First(o, "dict_loader")].res
    ELSE None

(* C18: with a post-processor, the contents held after a successful load() are the *)
(* post-processor's output for the loader's result, and the contents held after a  *)
(* build are its output for the builder's result (or for the default empty         *)
(* mapping); without one they are the loader's or builder's result as it is.       *)
C18_PostProcessed ==
    /\ (Finished /\ call.op = "load" /\ Root.contents # None) =>
          Root.contents = IF Root.cb.post_processor # "None"
                          THEN post_processor(Loaded(call.self))
                          ELSE Loaded(call.self)
    /\ (Finished /\ call.op = "invalidate_and_rebuild") =>
          Root.contents = IF Root.cb.post_processor # "None"
                          THEN post_processor(BuiltFrom(call.self))
                          ELSE BuiltFrom(call.self)

(* C19: what save() of a persistent wrapper leaves in storage under the cache name *)
(* is the pre-processed contents, not the contents as held in memory.              *)
C19_PersistsProcessed ==
    (Finished /\ call.op = "save" /\ Root.cb.saver = "_manager_pickle_saver") =>
        store[Root.name] = _pre_process(Root, Root.contents)

(* C20: a load() in which the loader or the validator raises hands the exception   *)
(* to the caller and leaves the wrapper without contents or with the contents it   *)
(* had; and a wrapper with a validator never holds, after a load, a loader result  *)
(* the validator has not approved.                                                 *)
C20_NoUnvalidatedContents ==
    (Finished /\ call.op = "load") =>
        /\ err # "None" =>
              \/ Root.contents = None
              \/ Root.contents = pre.wrappers[call.self].contents
        /\ (Root.cb.validator # "None" /\ Root.contents # None) =>
              \E i \in 1..Len(log) :
                  /\ log[i].self = call.self /\ log[i].ev = "validator"
                  /\ log[i].arg = Root.contents /\ log[i].res = Bool(TRUE)

====
